---- MODULE Spec2Model ----
(***************************************************************************)
(* Model of src/src/App.tsx: the image cropper component.  The state is    *)
(* the component's React state (imgSrc, crop, aspect, completedCrop,       *)
(* isLoading, isDragging), the <img> element behind imgRef, the file       *)
(* readers and face detections in flight.  Every handler is one action.    *)
(*                                                                         *)
(* Numbers are exact rationals <<n, d>> (d > 0, lowest terms): the code's  *)
(* IEEE doubles are modelled without rounding error.                       *)
(***************************************************************************)
EXTENDS Integers, Sequences, FiniteSets, TLC

(* ------------------------------ bounds -------------------------------- *)
\* distinct image files the user can pick
NImages == 2
\* file reads that may be pending at once (readers is a set: a file picked
\* again while its read is pending is the same read)
MaxReaders == 1
\* number of <img> load events (onImageLoad invocations) in one run
MaxLoads == 2
\* face boxes of the session model lie on a grid of UIFaceGrid cells per axis
UIFaceGrid == 1
\* face boxes of the geometry model lie on a grid of FaceGrid cells per axis
FaceGrid == 4
\* image sizes of the geometry model are 1..MaxDim on each axis
MaxDim == 4

(* ---------------------------- rationals ------------------------------- *)
Abs(n) == IF n < 0 THEN -n ELSE n

RECURSIVE GCD(_, _)
GCD(a, b) == IF b = 0 THEN a ELSE GCD(b, a % b)

\* n/d (d > 0) with the common divisor g taken out
Reduce(n, d, g) == <<n \div g, d \div g>>

\* the rational n/d in lowest terms with a positive denominator
Rat(n, d) ==
    IF d < 0 THEN Reduce(-n, -d, GCD(Abs(n), Abs(d))) ELSE Reduce(n, d, GCD(Abs(n), Abs(d)))

Int2Rat(n) == <<n, 1>>
Zero == <<0, 1>>
RAdd(a, b) == Rat(a[1] * b[2] + b[1] * a[2], a[2] * b[2])
RSub(a, b) == Rat(a[1] * b[2] - b[1] * a[2], a[2] * b[2])
RMul(a, b) == Rat(a[1] * b[1], a[2] * b[2])
RDiv(a, b) == Rat(a[1] * b[2], a[2] * b[1])
RLeq(a, b) == a[1] * b[2] <= b[1] * a[2]
RLt(a, b) == a[1] * b[2] < b[1] * a[2]
RMax(a, b) == IF RLeq(a, b) THEN b ELSE a
RMin(a, b) == IF RLeq(a, b) THEN a ELSE b
\* conversion of a non-negative number to an integer by truncation
Trunc(a) == a[1] \div a[2]

Hundred == Int2Rat(100)

(* --------------------- react-image-crop helpers ----------------------- *)
\* App.tsx imports ReactCrop, makeAspectCrop and centerCrop from
\* react-image-crop (line 2).  The library is not part of the repository; its
\* functions are written here as the library computes them:
\*   convertToPixelCrop   v% of the container, `v ? (v * container) / 100 : 0`
\*   convertToPercentCrop `v ? (v / container) * 100 : 0`
\*   makeAspectCrop       in pixels: height = width / aspect when a width is
\*                        given, width = height * aspect when a height is
\*                        given, then the crop is shrunk to the container's
\*                        bottom edge and to its right edge, keeping the ratio
\*   centerCrop           in pixels: x = (containerWidth - width) / 2,
\*                        y = (containerHeight - height) / 2
\* A crop given in '%' is returned in '%'.
Undef == [unit |-> "undefined"]

PercentCrop(x, y, w, h) == [unit |-> "%", x |-> x, y |-> y, width |-> w, height |-> h]
PixelCrop(x, y, w, h) == [unit |-> "px", x |-> x, y |-> y, width |-> w, height |-> h]

\* convertToPixelCrop: a percent crop scaled by the container; a zero
\* coordinate stays zero
ConvertToPixelCrop(c, cw, ch) ==
    IF c.unit = "px" THEN c
    ELSE PixelCrop(RDiv(RMul(c.x, cw), Hundred), RDiv(RMul(c.y, ch), Hundred),
                   RDiv(RMul(c.width, cw), Hundred), RDiv(RMul(c.height, ch), Hundred))

\* convertToPercentCrop: `v ? (v / container) * 100 : 0`
ToPercent(v, container) == IF v = Zero THEN Zero ELSE RMul(RDiv(v, container), Hundred)

ConvertToPercentCrop(c, cw, ch) ==
    IF c.unit = "%" THEN c
    ELSE PercentCrop(ToPercent(c.x, cw), ToPercent(c.y, ch),
                     ToPercent(c.width, cw), ToPercent(c.height, ch))

\* makeAspectCrop, `if (crop.width) pixelCrop.height = pixelCrop.width / aspect`
HeightFromWidth(c, p, asp) ==
    IF c.width # Zero THEN [p EXCEPT !.height = RDiv(p.width, asp)] ELSE p

\* makeAspectCrop, `if (crop.height) pixelCrop.width = pixelCrop.height * aspect`
WidthFromHeight(c, p, asp) ==
    IF c.height # Zero THEN [p EXCEPT !.width = RMul(p.height, asp)] ELSE p

\* makeAspectCrop, `if (pixelCrop.y + pixelCrop.height > containerHeight)`
ShrinkToBottom(p, asp, ch) ==
    IF RLt(ch, RAdd(p.y, p.height))
    THEN [p EXCEPT !.height = RSub(ch, p.y), !.width = RMul(RSub(ch, p.y), asp)]
    ELSE p

\* makeAspectCrop, `if (pixelCrop.x + pixelCrop.width > containerWidth)`
ShrinkToRight(p, asp, cw) ==
    IF RLt(cw, RAdd(p.x, p.width))
    THEN [p EXCEPT !.width = RSub(cw, p.x), !.height = RDiv(RSub(cw, p.x), asp)]
    ELSE p

\* a pixel crop p computed for a crop given in `unit`, returned in that unit
InUnit(unit, p, cw, ch) == IF unit = "%" THEN ConvertToPercentCrop(p, cw, ch) ELSE p

\* makeAspectCrop: derive height from width, then width from height, then
\* shrink to the container's bottom and right edges keeping the ratio
MakeAspectCrop(c, asp, cw, ch) ==
    InUnit(c.unit,
           ShrinkToRight(
               ShrinkToBottom(
                   WidthFromHeight(c, HeightFromWidth(c, ConvertToPixelCrop(c, cw, ch), asp), asp),
                   asp, ch),
               asp, cw),
           cw, ch)

\* centerCrop, `x = (containerWidth - width) / 2`, `y = (containerHeight - height) / 2`
Centered(p, cw, ch) ==
    [p EXCEPT !.x = RDiv(RSub(cw, p.width), Int2Rat(2)),
              !.y = RDiv(RSub(ch, p.height), Int2Rat(2))]

\* centerCrop: the crop's size is kept, its origin is moved so that it sits
\* in the middle of the container
CenterCrop(c, cw, ch) == InUnit(c.unit, Centered(ConvertToPixelCrop(c, cw, ch), cw, ch), cw, ch)

(* ------------------------- inputs of the model ------------------------ *)
\* aspect === 1, aspect === 4/5, aspect === 16/9
AspectSquare == <<1, 1>>
AspectPortrait == <<4, 5>>
AspectWide == <<16, 9>>
Aspects == {AspectSquare, AspectPortrait, AspectWide}

Images == 1..NImages
\* displayed size (img.width, img.height) and natural size of image i
ImgWidth(i) == CASE i % 3 = 1 -> 200 [] i % 3 = 2 -> 100 [] OTHER -> 120
ImgHeight(i) == CASE i % 3 = 1 -> 100 [] i % 3 = 2 -> 150 [] OTHER -> 120
NaturalWidth(i) == CASE i % 3 = 1 -> 400 [] i % 3 = 2 -> 300 [] OTHER -> 120
NaturalHeight(i) == CASE i % 3 = 1 -> 200 [] i % 3 = 2 -> 450 [] OTHER -> 120

\* files offered to onSelectFile / handleDrop: nothing, a file whose type does
\* not start with 'image/', or image file i
NoFile == [kind |-> "none"]
OtherFile == [kind |-> "file", isImage |-> FALSE, id |-> 0]
ImageFile(i) == [kind |-> "file", isImage |-> TRUE, id |-> i]
Files == {NoFile, OtherFile} \cup {ImageFile(i) : i \in Images}

\* face boxes (pixels) lying fully inside a w x h image, on a grid of g
\* cells per axis
FaceBoxes(w, h, g) ==
    {[x |-> Rat(i * w, g), y |-> Rat(j * h, g),
      width |-> Rat(k * w, g), height |-> Rat(l * h, g)] :
        <<i, k, j, l>> \in {t \in (0..(g - 1)) \X (1..g) \X (0..(g - 1)) \X (1..g) :
                              t[1] + t[2] <= g /\ t[3] + t[4] <= g}}

\* what faceapi.detectAllFaces does: it throws, or it returns a list of
\* detections (empty, one face, or that face followed by a second one)
Throws == [kind |-> "throw"]
Returns(dets) == [kind |-> "return", detections |-> dets]
SecondFace(w, h) == [x |-> Zero, y |-> Zero, width |-> Int2Rat(w), height |-> Int2Rat(h)]
\* outcomes with at most one face
Outcomes(w, h, g) == {Throws, Returns(<<>>)} \cup {Returns(<<f>>) : f \in FaceBoxes(w, h, g)}
\* the same, and every one-face answer followed by a second face
AllOutcomes(w, h, g) ==
    Outcomes(w, h, g) \cup {Returns(<<f, SecondFace(w, h)>>) : f \in FaceBoxes(w, h, g)}

(* ------------------- onImageLoad: the crop geometry ------------------- *)
\* the 5% inset, 90% rectangle (lines 109-112, 159-165, 25-31)
DefaultRect == PercentCrop(Int2Rat(5), Int2Rat(5), Int2Rat(90), Int2Rat(90))

\* the face's size in percent of the image (lines 117-118)
FaceWidth(face, width) == RMul(RDiv(face.width, Int2Rat(width)), Hundred)
FaceHeight(face, height) == RMul(RDiv(face.height, Int2Rat(height)), Hundred)

\* lines 121-129: the rectangle's size for the captured aspect
CropWidth(asp, fw, fh) ==
    IF asp = AspectSquare THEN RMul(RMax(fw, fh), <<3, 2>>)
    ELSE IF asp = AspectPortrait THEN RMul(fw, <<3, 2>>)
    ELSE IF asp = AspectWide THEN RMul(RMul(fh, <<3, 2>>), <<16, 9>>)
    ELSE Int2Rat(90)

CropHeight(asp, fw, fh) ==
    IF asp = AspectSquare THEN RMul(RMax(fw, fh), <<3, 2>>)
    ELSE IF asp = AspectPortrait THEN RMul(RMul(fw, <<3, 2>>), <<5, 4>>)
    ELSE IF asp = AspectWide THEN RMul(fh, <<3, 2>>)
    ELSE Int2Rat(90)

\* lines 132-133: the origin that centers a size on the face, on one axis
CenteredOrigin(facePos, faceSize, cropSize, extent) ==
    RSub(RMul(RDiv(facePos, Int2Rat(extent)), Hundred), RDiv(RSub(cropSize, faceSize), Int2Rat(2)))

\* lines 117-133 given the face's size in percent
FaceRectFor(asp, width, height, face, fw, fh) ==
    PercentCrop(CenteredOrigin(face.x, fw, CropWidth(asp, fw, fh), width),
                CenteredOrigin(face.y, fh, CropHeight(asp, fw, fh), height),
                CropWidth(asp, fw, fh), CropHeight(asp, fw, fh))

\* lines 116-133: the rectangle centered on the face, before the clamp
FaceCenteredRect(asp, width, height, face) ==
    FaceRectFor(asp, width, height, face, FaceWidth(face, width), FaceHeight(face, height))

\* lines 136-137: Math.max(0, Math.min(origin, 100 - size))
ClampRect(r) ==
    [r EXCEPT !.x = RMax(Zero, RMin(r.x, RSub(Hundred, r.width))),
              !.y = RMax(Zero, RMin(r.y, RSub(Hundred, r.height)))]

\* lines 109-138: the rectangle handed to makeAspectCrop in the try block
TryRect(asp, width, height, detections) ==
    IF Len(detections) > 0
    THEN ClampRect(FaceCenteredRect(asp, width, height, detections[1]))
    ELSE DefaultRect

\* TryCrop with the call of makeAspectCrop left out
TryCropNoAspect(asp, width, height, detections) ==
    CenterCrop(TryRect(asp, width, height, detections), Int2Rat(width), Int2Rat(height))

\* lines 140-154: what the try block stores with setCrop
TryCrop(asp, width, height, detections) ==
    CenterCrop(MakeAspectCrop(TryRect(asp, width, height, detections),
                              asp, Int2Rat(width), Int2Rat(height)),
               Int2Rat(width), Int2Rat(height))

\* CatchCrop falling back to the whole image instead of the 90% rectangle
CatchCropFullRect(asp, width, height) ==
    CenterCrop(MakeAspectCrop(PercentCrop(Zero, Zero, Hundred, Hundred), asp,
                              Int2Rat(width), Int2Rat(height)),
               Int2Rat(width), Int2Rat(height))

\* lines 155-172: what the catch block stores with setCrop
CatchCrop(asp, width, height) ==
    CenterCrop(MakeAspectCrop(DefaultRect, asp, Int2Rat(width), Int2Rat(height)),
               Int2Rat(width), Int2Rat(height))

\* the crop onImageLoad stores once the detector has answered
OnImageLoadCrop(asp, width, height, outcome) ==
    IF outcome.kind = "throw"
    THEN CatchCrop(asp, width, height)
    ELSE TryCrop(asp, width, height, outcome.detections)

\* lines 21-38: the crop the aspect effect stores
AspectEffectCrop(asp, width, height) ==
    CenterCrop(MakeAspectCrop(DefaultRect, asp, Int2Rat(width), Int2Rat(height)),
               Int2Rat(width), Int2Rat(height))

(* ------------------------------- state -------------------------------- *)
VARIABLES
    imgSrc,          \* useState('') : 0 is '', i is the data URL of image file i
    crop,            \* useState<Crop>() : Undef or a percent crop
    aspect,          \* useState(1)
    completedCrop,   \* useState<PixelCrop>() : Undef or a pixel crop
    isLoading,       \* useState(false)
    isDragging,      \* useState(false)
    img,             \* the <img> element behind imgRef (meaningful while imgSrc # 0)
    readers,         \* image files whose FileReader has not fired 'load' yet
    detections,      \* onImageLoad invocations suspended at `await detectAllFaces`
    nLoads,          \* how many times onImageLoad has been invoked
    cropDragActive,  \* ReactCrop: a drag gesture has begun and not ended yet
    ev               \* what the last step did (its inputs and outputs)

vars == <<imgSrc, crop, aspect, completedCrop, isLoading, isDragging, img,
          readers, detections, nLoads, cropDragActive, ev>>

NoEvent == [type |-> "none"]

\* the <img> element right after it is mounted: nothing is loaded, its src
\* is set and its load event is still to come
FreshImg == [shown |-> 0, load |-> 0, pending |-> TRUE, width |-> 0, height |-> 0,
             naturalWidth |-> 0, naturalHeight |-> 0]
\* imgRef.current is null while the cropping area is not rendered (line 293)
NoImg == [FreshImg EXCEPT !.pending = FALSE]
\* the element once image i has loaded, by the k-th load event
LoadedImg(i, k) == [shown |-> i, load |-> k, pending |-> FALSE,
                    width |-> ImgWidth(i), height |-> ImgHeight(i),
                    naturalWidth |-> NaturalWidth(i), naturalHeight |-> NaturalHeight(i)]

\* ReactCrop.componentDidUpdate: when the crop prop goes from undefined to
\* defined on a mounted component whose media box has a size, onComplete is
\* called with the crop in pixels, and line 303 stores it; any other change
\* of the crop prop leaves completedCrop alone
ReactCropDidUpdate(prevCrop, nextCrop) ==
    IF imgSrc # 0 /\ prevCrop = Undef /\ nextCrop # Undef /\ img.width # 0 /\ img.height # 0
    THEN ConvertToPixelCrop(nextCrop, Int2Rat(img.width), Int2Rat(img.height))
    ELSE completedCrop

Init ==
    /\ imgSrc = 0
    /\ crop = Undef
    /\ aspect = AspectSquare
    /\ completedCrop = Undef
    /\ isLoading = FALSE
    /\ isDragging = FALSE
    /\ img = NoImg
    /\ readers = {}
    /\ detections = {}
    /\ nLoads = 0
    /\ cropDragActive = FALSE
    /\ ev = NoEvent

(* ------------------------------ intake --------------------------------- *)
\* HandleFile without the check of the file's type
HandleFileAnyType(file) == readers \cup {file.id}

\* lines 49-57: an image file starts a FileReader, any other file is ignored
HandleFile(file) == IF file.isImage THEN readers \cup {file.id} ELSE readers

FileEvent(file, via) ==
    IF file.kind = "file" /\ ~file.isImage
    THEN [type |-> "reject", via |-> via, wasDragging |-> isDragging]
    ELSE NoEvent

\* lines 59-63 (the input is rendered only while !imgSrc, line 221)
OnSelectFile(file) ==
    /\ imgSrc = 0
    /\ (file.kind = "file" /\ file.isImage) => Cardinality(readers) < MaxReaders
    /\ readers' = IF file.kind = "file" THEN HandleFile(file) ELSE readers
    /\ ev' = FileEvent(file, "select")
    /\ UNCHANGED <<imgSrc, crop, aspect, completedCrop, isLoading, isDragging, img,
                   detections, nLoads, cropDragActive>>

\* lines 65-69
HandleDragEnter ==
    /\ imgSrc = 0
    /\ isDragging' = TRUE
    /\ ev' = NoEvent
    /\ UNCHANGED <<imgSrc, crop, aspect, completedCrop, isLoading, img, readers,
                   detections, nLoads, cropDragActive>>

\* lines 71-75
HandleDragLeave ==
    /\ imgSrc = 0
    /\ isDragging' = FALSE
    /\ ev' = NoEvent
    /\ UNCHANGED <<imgSrc, crop, aspect, completedCrop, isLoading, img, readers,
                   detections, nLoads, cropDragActive>>

\* lines 77-80
HandleDragOver ==
    /\ imgSrc = 0
    /\ ev' = NoEvent
    /\ UNCHANGED <<imgSrc, crop, aspect, completedCrop, isLoading, isDragging, img,
                   readers, detections, nLoads, cropDragActive>>

\* lines 82-91
HandleDrop(file) ==
    /\ imgSrc = 0
    /\ (file.kind = "file" /\ file.isImage) => Cardinality(readers) < MaxReaders
    /\ isDragging' = FALSE
    /\ readers' = IF file.kind = "file" THEN HandleFile(file) ELSE readers
    /\ ev' = FileEvent(file, "drop")
    /\ UNCHANGED <<imgSrc, crop, aspect, completedCrop, isLoading, img,
                   detections, nLoads, cropDragActive>>

\* lines 52-54: the reader's 'load' listener; a new src on the <img> element
\* makes it load again, the cropping area is mounted when imgSrc was ''
ReaderLoad(i) ==
    /\ i \in readers
    /\ readers' = readers \ {i}
    /\ imgSrc' = i
    /\ img' = IF imgSrc = i THEN img
              ELSE IF imgSrc = 0 THEN FreshImg
              ELSE [img EXCEPT !.pending = TRUE]
    /\ ev' = NoEvent
    /\ UNCHANGED <<crop, aspect, completedCrop, isLoading, isDragging,
                   detections, nLoads, cropDragActive>>

\* HandleCancel without setCompletedCrop(undefined)
HandleCancelKeepsCommitted ==
    /\ imgSrc # 0
    /\ imgSrc' = 0
    /\ crop' = Undef
    /\ img' = NoImg
    /\ cropDragActive' = FALSE
    /\ ev' = [type |-> "cancel"]
    /\ UNCHANGED <<completedCrop, aspect, isLoading, isDragging, readers, detections, nLoads>>

\* lines 93-97 (the button is rendered only while imgSrc, line 319); the
\* cropping area is unmounted
HandleCancel ==
    /\ imgSrc # 0
    /\ imgSrc' = 0
    /\ crop' = Undef
    /\ completedCrop' = Undef
    /\ img' = NoImg
    /\ cropDragActive' = FALSE
    /\ ev' = [type |-> "cancel"]
    /\ UNCHANGED <<aspect, isLoading, isDragging, readers, detections, nLoads>>

(* ----------------------------- detection ------------------------------- *)
\* lines 99-107: the <img> fires load; onImageLoad reads the element's size,
\* sets isLoading and suspends at the await with `aspect` captured by the
\* useCallback closure
OnImageLoad ==
    /\ imgSrc # 0
    /\ img.pending
    /\ nLoads < MaxLoads
    /\ nLoads' = nLoads + 1
    /\ img' = LoadedImg(imgSrc, nLoads + 1)
    /\ isLoading' = TRUE
    /\ detections' = detections \cup
           {[id |-> nLoads + 1, img |-> imgSrc, aspect |-> aspect,
             width |-> ImgWidth(imgSrc), height |-> ImgHeight(imgSrc)]}
    /\ ev' = NoEvent
    /\ UNCHANGED <<imgSrc, crop, aspect, completedCrop, isDragging, readers, cropDragActive>>

\* lines 104-174: the detector answers invocation d with outcome o; the
\* continuation stores the crop and clears isLoading
DetectionComplete(d, o) ==
    /\ d \in detections
    /\ detections' = detections \ {d}
    /\ crop' = OnImageLoadCrop(d.aspect, d.width, d.height, o)
    /\ completedCrop' = ReactCropDidUpdate(crop, crop')
    /\ isLoading' = FALSE
    /\ ev' = [type |-> "detect", req |-> d, outcome |-> o]
    /\ UNCHANGED <<imgSrc, aspect, isDragging, img, readers, nLoads, cropDragActive>>

(* -------------------------- aspect and crop ---------------------------- *)
\* lines 264, 274, 284 and the effect of lines 21-38 (the buttons are
\* rendered only while imgSrc, line 257); setting the value aspect already
\* has does not re-render, so the effect does not run
SetAspect(a) ==
    /\ imgSrc # 0
    /\ aspect' = a
    /\ crop' = IF a = aspect THEN crop ELSE AspectEffectCrop(a, img.width, img.height)
    /\ completedCrop' = ReactCropDidUpdate(crop, crop')
    /\ ev' = NoEvent
    /\ UNCHANGED <<imgSrc, isLoading, isDragging, img, readers, detections, nLoads,
                   cropDragActive>>

\* the rectangles a drag gesture can produce: ReactCrop keeps them at the
\* aspect prop (line 304) and inside the image
UserCrops(asp, width, height) ==
    {MakeAspectCrop(PercentCrop(o[1], o[2], Int2Rat(40), Int2Rat(40)), asp,
                    Int2Rat(width), Int2Rat(height)) :
        o \in {<<Zero, Zero>>, <<Int2Rat(30), Int2Rat(20)>>}}

\* line 302: ReactCrop reports a crop during a pointer gesture; the loading
\* overlay (lines 295-299) lies over the crop surface while isLoading, so no
\* gesture starts then
OnChange(c) ==
    /\ imgSrc # 0
    /\ img.shown # 0
    /\ ~isLoading
    /\ c \in UserCrops(aspect, img.width, img.height)
    /\ crop' = c
    /\ cropDragActive' = TRUE
    /\ completedCrop' = ReactCropDidUpdate(crop, c)
    /\ ev' = NoEvent
    /\ UNCHANGED <<imgSrc, aspect, isLoading, isDragging, img, readers, detections, nLoads>>

\* line 303: the gesture ends; ReactCrop reports its crop prop in pixels
OnComplete ==
    /\ cropDragActive
    /\ crop # Undef
    /\ completedCrop' = ConvertToPixelCrop(crop, Int2Rat(img.width), Int2Rat(img.height))
    /\ cropDragActive' = FALSE
    /\ ev' = NoEvent
    /\ UNCHANGED <<imgSrc, crop, aspect, isLoading, isDragging, img, readers,
                   detections, nLoads>>

(* ------------------------------- export -------------------------------- *)
\* canvas.width and canvas.height are integers: assigning a number to them
\* truncates it (lines 187-188)
CanvasSize(c) == <<Trunc(c.width), Trunc(c.height)>>

\* DrawSource reading the crop's displayed pixels without scaling them
DrawSourceUnscaled(c) == <<c.x, c.y, c.width, c.height>>

\* lines 184-200: the arguments of drawImage
DrawSource(c) ==
    LET scaleX == RDiv(Int2Rat(img.naturalWidth), Int2Rat(img.width))
        scaleY == RDiv(Int2Rat(img.naturalHeight), Int2Rat(img.height))
    IN  <<RMul(c.x, scaleX), RMul(c.y, scaleY), RMul(c.width, scaleX), RMul(c.height, scaleY)>>

DrawDest(c) == <<Zero, Zero, c.width, c.height>>

\* lines 177-211: nothing happens without an <img> or a committed crop;
\* otherwise the canvas is sized, drawn to, and encoded (toBlob gives no blob
\* for a canvas without pixels, and then no download is triggered)
DownloadResult ==
    IF imgSrc = 0 \/ completedCrop = Undef
    THEN [type |-> "download", drawn |-> FALSE, saved |-> FALSE]
    ELSE [type |-> "download", drawn |-> TRUE,
          canvas |-> CanvasSize(completedCrop),
          source |-> DrawSource(completedCrop),
          dest |-> DrawDest(completedCrop),
          saved |-> CanvasSize(completedCrop)[1] > 0 /\ CanvasSize(completedCrop)[2] > 0]

DownloadCroppedImage ==
    /\ ev' = DownloadResult
    /\ UNCHANGED <<imgSrc, crop, aspect, completedCrop, isLoading, isDragging, img,
                   readers, detections, nLoads, cropDragActive>>

\* lines 328-336: the button exists only while imgSrc and completedCrop
ClickDownload ==
    /\ imgSrc # 0
    /\ completedCrop # Undef
    /\ DownloadCroppedImage

(* ---------------------------- specifications --------------------------- *)
Next ==
    \/ \E f \in Files : OnSelectFile(f)
    \/ HandleDragEnter
    \/ HandleDragLeave
    \/ HandleDragOver
    \/ \E f \in Files : HandleDrop(f)
    \/ \E i \in Images : ReaderLoad(i)
    \/ HandleCancel
    \/ OnImageLoad
    \/ \E d \in detections : \E o \in Outcomes(d.width, d.height, UIFaceGrid) :
            DetectionComplete(d, o)
    \/ \E a \in Aspects : SetAspect(a)
    \/ \E c \in UserCrops(aspect, img.width, img.height) : OnChange(c)
    \/ OnComplete
    \/ ClickDownload

\* the component's behaviours: every handler, in any order
Spec == Init /\ [][Next]_vars

(* ---------------- the geometry of onImageLoad on its own ---------------- *)
\* an image of displayed size w x h has just loaded under aspect a and its
\* detection is in flight
InitGeom ==
    \E a \in Aspects, w \in 1..MaxDim, h \in 1..MaxDim :
        /\ imgSrc = 1
        /\ crop = Undef
        /\ aspect = a
        /\ completedCrop = Undef
        /\ isLoading = TRUE
        /\ isDragging = FALSE
        /\ img = [shown |-> 1, load |-> 1, pending |-> FALSE, width |-> w, height |-> h,
                  naturalWidth |-> w, naturalHeight |-> h]
        /\ readers = {}
        /\ detections = {[id |-> 1, img |-> 1, aspect |-> a, width |-> w, height |-> h]}
        /\ nLoads = 1
        /\ cropDragActive = FALSE
        /\ ev = NoEvent

NextGeom ==
    \E d \in detections : \E o \in AllOutcomes(d.width, d.height, FaceGrid) :
        DetectionComplete(d, o)

\* onImageLoad's continuation on every image size, aspect and detector answer
SpecGeom == InitGeom /\ [][NextGeom]_vars

(* ------------------- downloadCroppedImage on its own ------------------- *)
\* committed crops: what ReactCrop reports for an effect crop or a gesture
CropsOf(i) ==
    UNION {UserCrops(a, ImgWidth(i), ImgHeight(i))
               \cup {AspectEffectCrop(a, ImgWidth(i), ImgHeight(i))} : a \in Aspects}

CommittedCrops ==
    UNION {{ConvertToPixelCrop(c, Int2Rat(ImgWidth(i)), Int2Rat(ImgHeight(i))) : c \in CropsOf(i)} :
               i \in Images}

\* the function's inputs: imgRef.current null or a loaded image, completedCrop
\* undefined or a committed crop
InitDownload ==
    \E i \in 0..NImages, c \in {Undef} \cup CommittedCrops, a \in Aspects :
        /\ imgSrc = i
        /\ crop = Undef
        /\ aspect = a
        /\ completedCrop = c
        /\ isLoading = FALSE
        /\ isDragging = FALSE
        /\ img = IF i = 0 THEN NoImg ELSE LoadedImg(i, 1)
        /\ readers = {}
        /\ detections = {}
        /\ nLoads = IF i = 0 THEN 0 ELSE 1
        /\ cropDragActive = FALSE
        /\ ev = NoEvent

NextDownload == DownloadCroppedImage

\* downloadCroppedImage called on every combination of its inputs
SpecDownload == InitDownload /\ [][NextDownload]_vars

(* ------------------------------- claims -------------------------------- *)
\* the displayed crop in displayed pixels
DisplayedCrop == ConvertToPixelCrop(crop, Int2Rat(img.width), Int2Rat(img.height))

\* invocation d of onImageLoad belongs to the image now displayed: the src
\* is still the one it loaded and no later load event has fired for the element
IsCurrent(d) == imgSrc = d.img /\ img.load = d.id /\ ~img.pending

InBounds(c) ==
    /\ RLeq(Zero, c.x)
    /\ RLeq(Zero, c.y)
    /\ RLeq(RAdd(c.x, c.width), Hundred)
    /\ RLeq(RAdd(c.y, c.height), Hundred)

\* C1: whenever an image is displayed and crop is defined, crop's
\* width:height ratio in displayed pixels equals the aspect state
C1_CropRatioIsAspect ==
    (imgSrc # 0 /\ img.shown # 0 /\ crop # Undef) =>
        DisplayedCrop.width = RMul(DisplayedCrop.height, aspect)

\* C2: a detection that completes for an image that is no longer the
\* displayed one (cancelled, or superseded by another load) leaves crop as it was
C2_StaleDetectionKeepsCrop ==
    [][(ev'.type = "detect" /\ ~IsCurrent(ev'.req)) => crop' = crop]_vars

\* C3: the crop onImageLoad stores lies inside the image:
\* 0 <= x, 0 <= y, x + width <= 100, y + height <= 100
C3_StoredCropInBounds == ev.type = "detect" => InBounds(crop)

\* C3 witness: a first face so large that 1.5 x the face exceeds the image
C3_Witness ==
    /\ ev.type = "detect"
    /\ ev.outcome.kind = "return"
    /\ Len(ev.outcome.detections) > 0
    /\ RLt(Hundred, FaceCenteredRect(ev.req.aspect, ev.req.width, ev.req.height,
                                     ev.outcome.detections[1]).width)
    /\ InBounds(crop)

\* the face-centered rectangle of the last detection, when the clamp does not move it
UnclampedFaceRect ==
    FaceCenteredRect(ev.req.aspect, ev.req.width, ev.req.height, ev.outcome.detections[1])

FaceCenterX == RMul(RDiv(RAdd(ev.outcome.detections[1].x,
                              RDiv(ev.outcome.detections[1].width, Int2Rat(2))),
                         Int2Rat(ev.req.width)), Hundred)
FaceCenterY == RMul(RDiv(RAdd(ev.outcome.detections[1].y,
                              RDiv(ev.outcome.detections[1].height, Int2Rat(2))),
                         Int2Rat(ev.req.height)), Hundred)

\* C4: when a face is detected and the clamp does not move the face-centered
\* rectangle, the stored crop's center is the first face's center
C4_StoredCropCenteredOnFace ==
    (/\ ev.type = "detect"
     /\ ev.outcome.kind = "return"
     /\ Len(ev.outcome.detections) > 0
     /\ ClampRect(UnclampedFaceRect) = UnclampedFaceRect) =>
        /\ RAdd(crop.x, RDiv(crop.width, Int2Rat(2))) = FaceCenterX
        /\ RAdd(crop.y, RDiv(crop.height, Int2Rat(2))) = FaceCenterY

\* the 90% rectangle at 5% inset, adjusted to aspect a and centered, for a
\* w x h image
FallbackCrop(a, w, h) ==
    CenterCrop(MakeAspectCrop(DefaultRect, a, Int2Rat(w), Int2Rat(h)), Int2Rat(w), Int2Rat(h))

\* C5: when the detector throws and when it returns no detection, onImageLoad
\* stores the same crop, the fallback rectangle for the active aspect, and
\* isLoading ends false
C5_ThrowEqualsNoFace ==
    (ev.type = "detect" /\ (ev.outcome.kind = "throw" \/ ev.outcome = Returns(<<>>))) =>
        /\ crop = FallbackCrop(aspect, ev.req.width, ev.req.height)
        /\ InBounds(crop)
        /\ DisplayedCrop.width = RMul(DisplayedCrop.height, aspect)
        /\ isLoading = FALSE

\* C5 witness: the detector threw and the fallback had to be shrunk to the aspect
C5_Witness ==
    /\ ev.type = "detect"
    /\ ev.outcome.kind = "throw"
    /\ crop.width # Int2Rat(90)
    /\ isLoading = FALSE

\* C6: while the detection of the displayed image is in flight, isLoading is true
C6_LoadingWhileDetecting == (\E d \in detections : IsCurrent(d)) => isLoading

\* C7 as claimed: right after handleCancel the image and both crops are
\* cleared and aspect and isLoading have their initial values
C7_CancelResetsAll ==
    ev.type = "cancel" =>
        /\ imgSrc = 0
        /\ crop = Undef
        /\ completedCrop = Undef
        /\ aspect = AspectSquare
        /\ isLoading = FALSE

\* C7 amended: handleCancel clears the image and both crops, and leaves
\* aspect and isLoading as they were
C7_CancelClearsImageAndCrops ==
    [][ev'.type = "cancel" =>
          /\ imgSrc' = 0
          /\ crop' = Undef
          /\ completedCrop' = Undef
          /\ aspect' = aspect
          /\ isLoading' = isLoading]_vars

\* C7 witness: a cancel during a detection, under an aspect other than 1:1
C7_Witness ==
    /\ ev.type = "cancel"
    /\ imgSrc = 0
    /\ aspect # AspectSquare
    /\ isLoading
    /\ detections # {}

\* C8 as claimed: a non-image file, selected or dropped, changes no state
C8_RejectChangesNothing ==
    [][ev'.type = "reject" =>
          UNCHANGED <<imgSrc, crop, completedCrop, aspect, isLoading, isDragging>>]_vars

\* C8 amended: a non-image file changes nothing and starts no read, except
\* that a drop resets isDragging to false
C8_RejectChangesOnlyDragFlag ==
    [][ev'.type = "reject" =>
          /\ UNCHANGED <<imgSrc, crop, completedCrop, aspect, isLoading, readers, img>>
          /\ isDragging' = IF ev'.via = "drop" THEN FALSE ELSE isDragging]_vars

\* C8 witness: a non-image file dropped while the drop zone was highlighted
C8_Witness ==
    /\ ev.type = "reject"
    /\ ev.via = "drop"
    /\ ev.wasDragging
    /\ imgSrc = 0
    /\ readers = {}

\* the region of the natural image that a committed crop c denotes
ScaledRegion(c) ==
    <<RDiv(RMul(c.x, Int2Rat(img.naturalWidth)), Int2Rat(img.width)),
      RDiv(RMul(c.y, Int2Rat(img.naturalHeight)), Int2Rat(img.height)),
      RDiv(RMul(c.width, Int2Rat(img.naturalWidth)), Int2Rat(img.width)),
      RDiv(RMul(c.height, Int2Rat(img.naturalHeight)), Int2Rat(img.height))>>

\* C9 as claimed: the output surface is exactly c.width by c.height pixels
C9_CanvasIsExactlyCrop ==
    (ev.type = "download" /\ ev.drawn) =>
        /\ Int2Rat(ev.canvas[1]) = completedCrop.width
        /\ Int2Rat(ev.canvas[2]) = completedCrop.height

\* C9 amended: with an image and a committed crop c the function reads the
\* region (c.x*scaleX, c.y*scaleY, c.width*scaleX, c.height*scaleY) and draws
\* it c.width by c.height onto a surface whose size is c.width by c.height
\* with the fractions dropped; without an image or a crop it draws nothing
\* and triggers no download
C9_DrawsScaledRegion ==
    ev.type = "download" =>
        IF imgSrc = 0 \/ completedCrop = Undef
        THEN ~ev.drawn /\ ~ev.saved
        ELSE /\ ev.drawn
             /\ ev.source = ScaledRegion(completedCrop)
             /\ ev.dest = <<Zero, Zero, completedCrop.width, completedCrop.height>>
             /\ RLeq(Int2Rat(ev.canvas[1]), completedCrop.width)
             /\ RLt(completedCrop.width, Int2Rat(ev.canvas[1] + 1))
             /\ RLeq(Int2Rat(ev.canvas[2]), completedCrop.height)
             /\ RLt(completedCrop.height, Int2Rat(ev.canvas[2] + 1))

\* C9 witness: a download of a crop whose size is not a whole number of
\* pixels, from an image displayed at another scale than its natural size
C9_Witness ==
    /\ ev.type = "download"
    /\ ev.drawn
    /\ ev.saved
    /\ img.naturalWidth # img.width
    /\ Int2Rat(ev.canvas[1]) # completedCrop.width

\* C10: whenever the download action is available and no gesture is in
\* progress, completedCrop is the displayed crop, in pixels
C10_CommittedCropIsDisplayedCrop ==
    (imgSrc # 0 /\ completedCrop # Undef /\ ~cropDragActive) =>
        (crop # Undef /\ completedCrop = DisplayedCrop)

====
